---- MODULE Spec2Model ----
(***************************************************************************)
(* Model of model_foundry (src/src/main.rs): the tick loader, the candle   *)
(* aggregator, the parameter sweep and the ranker/writer.                  *)
(*                                                                         *)
(* Numbers.  Timestamps are u64 in the source; the bounds below keep every *)
(* sum ts + interval far below 2^64, so u64 addition is exact here.        *)
(* Prices, spreads and metrics are f64 in the source; the model uses exact *)
(* fixed-point integers (finite values only, no NaN, no rounding).  A mean *)
(* sum / count is kept as the exact fraction [num, den].                   *)
(***************************************************************************)
EXTENDS Integers, Sequences, FiniteSets, TLC

VARIABLES
    ticks,          \* ticks_to_candles: the input slice
    interval_ms,    \* ticks_to_candles: the window width
    candles,        \* ticks_to_candles: the returned Vec<Candle>
    agg_pc,         \* "input" before the call, "done" after it
    file_lines,     \* load_ticks: the lines of the CSV file, each a sequence of characters
    io_fault,       \* load_ticks: 0 = no I/O error, -1 = File::open failed,
                    \*             k > 0 = the read of line k failed
    load_result,    \* load_ticks: the returned anyhow::Result<Vec<Tick>>
    load_pc,        \* "input" before the call, "done" after it
    cands,          \* write_top_candidates_jsonl: the slice it is given
    top_k,          \* write_top_candidates_jsonl: K
    top_result,     \* write_top_candidates_jsonl: [ret, file] it leaves
    top_pc,         \* "input" before the call, "done" after it
    main_pc,        \* main in sweep mode: the next step, "done" or "aborted"
    grid_input,     \* main: what --grid-file gives (none, bad, or a GridSpec)
    grid,           \* main: (donch_vec, rr_vec, sess_vec, spread_vec)
    all_candidates, \* main: Vec<CandidateOut>
    evaluations,    \* main: the number of run_strategy calls made
    kept,           \* main: the count write_top_candidates_jsonl returned
    cand_file,      \* ./out/candidates.jsonl
    top_file,       \* ./out/top_candidates.jsonl
    summary,        \* what main printed to stdout, as a sequence of objects
    abort_cause     \* main: the step whose error ended the run, or "none"

aggVars == <<ticks, interval_ms, candles, agg_pc>>
loadVars == <<file_lines, io_fault, load_result, load_pc>>
topVars == <<cands, top_k, top_result, top_pc>>
mainVars == <<main_pc, grid_input, grid, all_candidates, evaluations, kept,
              cand_file, top_file, summary, abort_cause>>

vars == <<ticks, interval_ms, candles, agg_pc,
          file_lines, io_fault, load_result, load_pc,
          cands, top_k, top_result, top_pc,
          main_pc, grid_input, grid, all_candidates, evaluations, kept,
          cand_file, top_file, summary, abort_cause>>

(***************************************************************************)
(* Bounds of the aggregator's inputs.                                      *)
(***************************************************************************)
MaxTicks == 3
MaxTs == 3
MaxInterval == 2
Bids == {1, 2}
Asks == {1, 3}

Min(a, b) == IF a <= b THEN a ELSE b
Max(a, b) == IF a >= b THEN a ELSE b

\* struct Tick { ts_ms, bid, ask }
Tick == [ts_ms : 0..MaxTs, bid : Bids, ask : Asks]

SeqsUpTo(S, n) == UNION {[1..k -> S] : k \in 0..n}

\* (a - b).abs()
Abs(x) == IF x < 0 THEN -x ELSE x

\* |ask - bid| of one tick, lines 183 and 194
Spread(tk) == Abs(tk.ask - tk.bid)

\* spread_sum / spread_cnt, or 0.0 when spread_cnt = 0 (lines 157-161, 200-204)
MidSpread(spread_sum, spread_cnt) ==
    IF spread_cnt > 0 THEN [num |-> spread_sum, den |-> spread_cnt]
                      ELSE [num |-> 0, den |-> 1]

\* The locals of ticks_to_candles before the loop (lines 142-152)
InitBucket(tks, interval) ==
    [ candles      |-> << >>,
      bucket_start |-> tks[1].ts_ms,
      bucket_end   |-> tks[1].ts_ms + interval,
      cur_open     |-> tks[1].bid,
      cur_high     |-> tks[1].bid,
      cur_low      |-> tks[1].bid,
      cur_close    |-> tks[1].bid,
      spread_sum   |-> 0,
      spread_cnt   |-> 0 ]

\* Candle { .. } pushed at a flush (lines 157-170) and after the loop (200-213)
FlushCandle(st) ==
    [ start_ts   |-> st.bucket_start,
      end_ts     |-> st.bucket_end,
      open       |-> st.cur_open,
      high       |-> st.cur_high,
      low        |-> st.cur_low,
      close      |-> st.cur_close,
      mid_spread |-> MidSpread(st.spread_sum, st.spread_cnt) ]

\* A variant that advances the bucket once (an `if` for the `while`).
AdvanceBucket_Once(bucket_end, ts, interval) == bucket_end

\* while tk.ts_ms >= bucket_end { bucket_start = bucket_end; ... } (173-176)
\* Returns the new bucket_start.
RECURSIVE AdvanceBucket(_, _, _)
AdvanceBucket(bucket_end, ts, interval) ==
    IF ts >= bucket_end
        THEN AdvanceBucket(bucket_end + interval, ts, interval)
        ELSE bucket_end - interval

\* A variant that starts the new bucket at the tick instead of on the grid.
NewBucketStep_AtTick(st, tk, interval) ==
    [ candles      |-> Append(st.candles, FlushCandle(st)),
      bucket_start |-> tk.ts_ms,
      bucket_end   |-> tk.ts_ms + interval,
      cur_open     |-> tk.bid,
      cur_high     |-> tk.bid,
      cur_low      |-> tk.bid,
      cur_close    |-> tk.bid,
      spread_sum   |-> Spread(tk),
      spread_cnt   |-> 1 ]

\* The branch taken when tk.ts_ms >= bucket_end (lines 156-184)
NewBucketStep(st, tk, interval) ==
    LET bs == AdvanceBucket(st.bucket_end, tk.ts_ms, interval) IN
    [ candles      |-> Append(st.candles, FlushCandle(st)),
      bucket_start |-> bs,
      bucket_end   |-> bs + interval,
      cur_open     |-> tk.bid,
      cur_high     |-> tk.bid,
      cur_low      |-> tk.bid,
      cur_close    |-> tk.bid,
      spread_sum   |-> Spread(tk),
      spread_cnt   |-> 1 ]

\* A variant that forgets to lower cur_low.
SameBucketStep_NoLow(st, tk) ==
    [ st EXCEPT
        !.cur_high   = IF tk.bid > st.cur_high THEN tk.bid ELSE st.cur_high,
        !.cur_close  = tk.bid,
        !.spread_sum = st.spread_sum + Spread(tk),
        !.spread_cnt = st.spread_cnt + 1 ]

\* The else branch, same bucket (lines 186-195)
SameBucketStep(st, tk) ==
    [ st EXCEPT
        !.cur_high   = IF tk.bid > st.cur_high THEN tk.bid ELSE st.cur_high,
        !.cur_low    = IF tk.bid < st.cur_low THEN tk.bid ELSE st.cur_low,
        !.cur_close  = tk.bid,
        !.spread_sum = st.spread_sum + Spread(tk),
        !.spread_cnt = st.spread_cnt + 1 ]

\* One iteration of `for tk in ticks` (lines 154-197)
TickStep(st, tk, interval) ==
    IF tk.ts_ms >= st.bucket_end
        THEN NewBucketStep(st, tk, interval)
        ELSE SameBucketStep(st, tk)

\* The whole loop: it visits every tick, ticks[0] included (line 154)
RECURSIVE RunLoop(_, _, _, _)
RunLoop(st, tks, i, interval) ==
    IF i > Len(tks) THEN st
    ELSE RunLoop(TickStep(st, tks[i], interval), tks, i + 1, interval)

\* A variant whose loop starts after ticks[0] (`for tk in &ticks[1..]`).
ticks_to_candles_SkipFirst(tks, interval) ==
    IF Len(tks) = 0 THEN << >>
    ELSE LET st == RunLoop(InitBucket(tks, interval), tks, 2, interval)
         IN  Append(st.candles, FlushCandle(st))

\* A variant that flushes the trailing bucket only when it took a second tick.
ticks_to_candles_NoTrailingFlush(tks, interval) ==
    IF Len(tks) = 0 THEN << >>
    ELSE LET st == RunLoop(InitBucket(tks, interval), tks, 1, interval)
         IN  IF st.spread_cnt > 1 THEN Append(st.candles, FlushCandle(st))
                                  ELSE st.candles

\* fn ticks_to_candles(ticks, interval_ms) -> Vec<Candle> (lines 137-216)
ticks_to_candles(tks, interval) ==
    IF Len(tks) = 0 THEN << >>
    ELSE LET st == RunLoop(InitBucket(tks, interval), tks, 1, interval)
         IN  Append(st.candles, FlushCandle(st))

(***************************************************************************)
(* SpecTicks: ticks_to_candles applied to every bounded input.             *)
(***************************************************************************)
NoFile == [exists |-> FALSE, lines |-> << >>]

TopIdle ==
    /\ cands = << >>
    /\ top_k = 0
    /\ top_result = [ret |-> [ok |-> TRUE, val |-> 0], file |-> NoFile]
    /\ top_pc = "idle"

EmptyGrid == [donch_n |-> << >>, rr_min |-> << >>, session_filter |-> << >>,
              max_spread |-> << >>]

MainIdle ==
    /\ main_pc = "idle"
    /\ grid_input = [kind |-> "none", spec |-> EmptyGrid]
    /\ grid = EmptyGrid
    /\ all_candidates = << >>
    /\ evaluations = 0
    /\ kept = 0
    /\ cand_file = NoFile
    /\ top_file = NoFile
    /\ summary = << >>
    /\ abort_cause = "none"

LoadIdle ==
    /\ file_lines = << >>
    /\ io_fault = 0
    /\ load_result = [ok |-> TRUE, val |-> << >>]
    /\ load_pc = "idle"

InitTicks ==
    /\ ticks \in SeqsUpTo(Tick, MaxTicks)
    /\ interval_ms \in 1..MaxInterval
    /\ candles = << >>
    /\ agg_pc = "input"
    /\ LoadIdle
    /\ TopIdle
    /\ MainIdle

Aggregate ==
    /\ agg_pc = "input"
    /\ candles' = ticks_to_candles(ticks, interval_ms)
    /\ agg_pc' = "done"
    /\ UNCHANGED <<ticks, interval_ms>>
    /\ UNCHANGED <<loadVars, topVars, mainVars>>

NextTicks == Aggregate

SpecTicks == InitTicks /\ [][NextTicks]_vars

(***************************************************************************)
(* The tick loader (lines 110-134).  A line is a sequence of one-character *)
(* strings.  An f64 is kept in tenths (one fractional digit; the sample    *)
(* fields have no more), so "1.5" is 15 and "2" is 20.                     *)
(***************************************************************************)
MaxLines == 2

Digits == {"0", "1", "2", "3", "4", "5", "6", "7", "8", "9"}

DigitVal(c) ==
    CASE c = "0" -> 0 [] c = "1" -> 1 [] c = "2" -> 2 [] c = "3" -> 3
      [] c = "4" -> 4 [] c = "5" -> 5 [] c = "6" -> 6 [] c = "7" -> 7
      [] c = "8" -> 8 [] c = "9" -> 9

RECURSIVE DecVal(_)
DecVal(ds) ==
    IF ds = << >> THEN 0
    ELSE 10 * DecVal(SubSeq(ds, 1, Len(ds) - 1)) + DigitVal(ds[Len(ds)])

AllDigits(s) == \A i \in 1..Len(s) : s[i] \in Digits

Ok(v) == [ok |-> TRUE, val |-> v]
Err == [ok |-> FALSE, val |-> << >>]

\* str::contains (line 119)
Contains(s, pat) ==
    \E k \in 0..(Len(s) - Len(pat)) : SubSeq(s, k + 1, k + Len(pat)) = pat

\* str::split(',').collect() (line 123)
RECURSIVE Split(_)
Split(s) ==
    LET commas == {i \in 1..Len(s) : s[i] = ","} IN
    IF commas = {} THEN <<s>>
    ELSE LET c == CHOOSE i \in commas : \A j \in commas : i <= j
         IN  <<SubSeq(s, 1, c - 1)>> \o Split(SubSeq(s, c + 1, Len(s)))

IsSpace(c) == c \in {" ", "\t", "\r"}

\* str::trim (lines 127-129)
RECURSIVE Trim(_)
Trim(s) ==
    IF s = << >> THEN s
    ELSE IF IsSpace(s[1]) THEN Trim(Tail(s))
    ELSE IF IsSpace(s[Len(s)]) THEN Trim(SubSeq(s, 1, Len(s) - 1))
    ELSE s

\* str::parse::<u64> (line 127): an optional '+', then one or more digits
ParseU64(s) ==
    LET body == IF s # << >> /\ s[1] = "+" THEN Tail(s) ELSE s IN
    IF body # << >> /\ AllDigits(body) THEN Ok(DecVal(body)) ELSE Err

\* str::parse::<f64> (lines 128-129) on the characters of the samples: an
\* optional sign, digits, an optional '.', digits; one digit at least.
\* The value is in tenths.
ParseF64(s) ==
    LET signed == s # << >> /\ s[1] \in {"+", "-"}
        body   == IF signed THEN Tail(s) ELSE s
        dots   == {i \in 1..Len(body) : body[i] = "."}
        dot    == IF dots = {} THEN Len(body) + 1 ELSE CHOOSE i \in dots : TRUE
        ip     == SubSeq(body, 1, dot - 1)
        fp     == SubSeq(body, dot + 1, Len(body))
        mag    == 10 * DecVal(ip) + (IF fp = << >> THEN 0 ELSE DigitVal(fp[1]))
    IN  IF /\ Cardinality(dots) <= 1
           /\ AllDigits(ip) /\ AllDigits(fp)
           /\ Len(ip) + Len(fp) >= 1
        THEN Ok(IF signed /\ s[1] = "-" THEN -mag ELSE mag)
        ELSE Err

\* A variant that keeps a failed parse's error instead of defaulting.
UnwrapOr_Strict(res, default) == IF res.ok THEN res.val ELSE -1

\* Result::unwrap_or (lines 127-129)
UnwrapOr(res, default) == IF res.ok THEN res.val ELSE default

kTsMs == <<"t", "s", "_", "m", "s">>
kBid == <<"b", "i", "d">>
kAsk == <<"a", "s", "k">>

\* line.contains("ts_ms") && line.contains("bid") && line.contains("ask") (119)
IsHeader(line) == Contains(line, kTsMs) /\ Contains(line, kBid) /\ Contains(line, kAsk)

\* A variant that applies the header test to every line.
SkipHeader_AnyLine(i, line) == IsHeader(line)

\* if i == 0 { if <header> { continue; } } (lines 117-122); i counts from 1 here
SkipHeader(i, line) == i = 1 /\ IsHeader(line)

\* A variant that wants exactly three fields.
TooFewFields_Exactly3(parts) == Len(parts) # 3

\* if parts.len() < 3 { continue; } (lines 124-126)
TooFewFields(parts) == Len(parts) < 3

\* Tick { ts_ms, bid, ask } of one row (lines 127-131)
RowTick(parts) ==
    [ ts_ms |-> UnwrapOr(ParseU64(Trim(parts[1])), 0),
      bid   |-> UnwrapOr(ParseF64(Trim(parts[2])), 0),
      ask   |-> UnwrapOr(ParseF64(Trim(parts[3])), 0) ]

\* The body of the loop for line i (lines 116-131): out after the line
LoadLine(out, i, line) ==
    IF SkipHeader(i, line) THEN out
    ELSE LET parts == Split(line) IN
         IF TooFewFields(parts) THEN out ELSE Append(out, RowTick(parts))

RECURSIVE LoadLoop(_, _, _, _)
LoadLoop(out, lines, i, fault) ==
    IF i > Len(lines) THEN Ok(out)
    ELSE IF fault = i THEN Err                    \* let line = line_res?; (116)
    ELSE LoadLoop(LoadLine(out, i, lines[i]), lines, i + 1, fault)

\* fn load_ticks(csv_path) (lines 110-134); fault is the I/O outcome
load_ticks(lines, fault) ==
    IF fault = -1 THEN Err                        \* File::open(csv_path)? (111)
    ELSE LoadLoop(<< >>, lines, 1, fault)

RECURSIVE JoinFields(_)
JoinFields(fs) ==
    IF Len(fs) = 1 THEN fs[1]
    ELSE fs[1] \o <<",">> \o JoinFields(Tail(fs))

\* The sample lines a file is made of
LineSamples ==
    { JoinFields(<<kTsMs, kBid, kAsk>>),                      \* ts_ms,bid,ask
      JoinFields(<<kAsk, kBid, kTsMs>>),                      \* ask,bid,ts_ms
      JoinFields(<<kTsMs, kBid, <<"2">> >>),                  \* ts_ms,bid,2
      JoinFields(<< <<"1">>, <<"2">>, <<"3">> >>),            \* 1,2,3
      JoinFields(<< <<" ", "2", " ">>, <<"1", ".", "5">>, <<"+", "3">> >>),
      JoinFields(<< <<"x">>, <<"2">>, <<"1">> >>),            \* x,2,1
      JoinFields(<< <<"-", "1">>, <<"-", "1">>, <<"x">> >>),  \* -1,-1,x
      JoinFields(<< <<"1">>, <<"2">> >>),                     \* 1,2
      << >>,                                                  \* an empty line
      JoinFields(<< <<"1", "2">>, <<"2">>, <<"1">>, <<"x">> >>),  \* 12,2,1,x
      JoinFields(<< << >>, << >>, << >> >>) }                 \* ,,

(***************************************************************************)
(* SpecLoad: load_ticks applied to every bounded file and I/O outcome.     *)
(***************************************************************************)
AggIdle ==
    /\ ticks = << >>
    /\ interval_ms = 1
    /\ candles = << >>
    /\ agg_pc = "idle"

InitLoad ==
    /\ file_lines \in SeqsUpTo(LineSamples, MaxLines)
    /\ io_fault = 0
    /\ load_result = Ok(<< >>)
    /\ load_pc = "input"
    /\ AggIdle
    /\ TopIdle
    /\ MainIdle

\* the file opens and every line is read
LoadTicksRead ==
    /\ load_pc = "input"
    /\ io_fault' = 0
    /\ load_result' = load_ticks(file_lines, 0)
    /\ load_pc' = "done"
    /\ UNCHANGED file_lines
    /\ UNCHANGED <<aggVars, topVars, mainVars>>

\* the open fails, or the read of some line does
LoadTicksIoError ==
    /\ load_pc = "input"
    /\ \E f \in {-1} \cup (1..Len(file_lines)) :
         /\ io_fault' = f
         /\ load_result' = load_ticks(file_lines, f)
    /\ load_pc' = "done"
    /\ UNCHANGED file_lines
    /\ UNCHANGED <<aggVars, topVars, mainVars>>

NextLoad == LoadTicksRead \/ LoadTicksIoError

SpecLoad == InitLoad /\ [][NextLoad]_vars

(***************************************************************************)
(* The evaluator, the candidate builder and the ranker (lines 221-345).    *)
(* rr_min, max_spread and the f64 metrics are in units of 0.0001, so 1.8   *)
(* is 18000 and 0.05 is 500; the sample values divide exactly.             *)
(***************************************************************************)
\* match session_filter { "london" => 0.05, ... } (lines 235-240)
SessionBonus(session_filter) ==
    CASE session_filter = "london" -> 500
      [] session_filter = "nyopen" -> 400
      [] session_filter = "asia"   -> 300
      [] OTHER                     -> 200

\* if max_spread > 2.5 { 0.05 } else if max_spread > 2.0 { 0.03 } else { 0.0 }
SpreadPenalty(max_spread) ==
    IF max_spread > 25000 THEN 500
    ELSE IF max_spread > 20000 THEN 300
    ELSE 0

\* fn run_strategy(candles, donch_n, rr_min, max_spread, session_filter)
\* (lines 221-278); the candles are not read.  pnl is in units of 1/40000000
\* (trades * (pf_bt - 1).max(0) * donch_n / 40 * 0.01).
run_strategy(donch_n, rr_min, max_spread, session_filter) ==
    LET trades == 1000 + donch_n * 5
        pf_bt  == 15000 + donch_n * 50 + (rr_min - 15000) \div 5
                    + SessionBonus(session_filter) - SpreadPenalty(max_spread)
        dd_bt  == 400 + donch_n * 10 + rr_min \div 100
                    + SpreadPenalty(max_spread) \div 2
    IN  [ pf_bt   |-> pf_bt,
          dd_bt   |-> dd_bt,
          trades  |-> trades,
          winrate |-> 5000 + (rr_min - 15000) \div 20,
          pnl     |-> trades * Max(pf_bt - 10000, 0) * donch_n ]

\* fn build_candidate (lines 281-306).  model_id (symbol, parameters and the
\* wall clock) and symbol are left out: nothing below reads them.
build_candidate(donch_n, rr_min, max_spread, session_filter, metrics) ==
    [ params  |-> [ donch_n        |-> donch_n,
                    rr_min         |-> rr_min,
                    max_spread     |-> max_spread,
                    session_filter |-> session_filter ],
      metrics |-> metrics ]

\* A variant that rewards drawdown.
score_candidate_Plus(c) == c.metrics.pf_bt + (c.metrics.dd_bt * 10)

\* fn score_candidate (lines 309-312)
score_candidate(c) == c.metrics.pf_bt - (c.metrics.dd_bt * 10)

\* A variant that puts a candidate before the ones of equal score.
InsertByScore_TiesFirst(sorted, c) ==
    LET before == {i \in 1..Len(sorted) :
                     score_candidate(sorted[i]) > score_candidate(c)}
        n == Cardinality(before)
    IN  SubSeq(sorted, 1, n) \o <<c>> \o SubSeq(sorted, n + 1, Len(sorted))

\* One insertion of the stable sort: c, which came later in the input, goes
\* after every element the comparator does not order after it (line 336).
InsertByScore(sorted, c) ==
    LET before == {i \in 1..Len(sorted) :
                     score_candidate(sorted[i]) >= score_candidate(c)}
        n == Cardinality(before)
    IN  SubSeq(sorted, 1, n) \o <<c>> \o SubSeq(sorted, n + 1, Len(sorted))

\* v.sort_by(|a, b| score(b).partial_cmp(&score(a)).unwrap()) (line 336):
\* slice::sort_by is a stable sort; scores here are never NaN.
RECURSIVE SortByScoreDesc(_)
SortByScoreDesc(v) ==
    IF v = << >> THEN << >>
    ELSE InsertByScore(SortByScoreDesc(SubSeq(v, 1, Len(v) - 1)), v[Len(v)])

\* serde_json::to_string(c): the object's fields in declaration order
ToJsonLine(c) == <<"params", c.params, "metrics", c.metrics>>

\* The outcome of writing `lines` to a file that was `old`: fault 0 is no
\* error, -2 is ensure_out_dir failing, -1 is File::create failing, k > 0 is
\* the k-th writeln! failing.  File::create truncates; a failed line is not kept.
WriteLines(old, lines, fault) ==
    IF fault \in {-2, -1} THEN [ok |-> FALSE, file |-> old]
    ELSE IF fault \in 1..Len(lines)
        THEN [ok |-> FALSE, file |-> [exists |-> TRUE, lines |-> SubSeq(lines, 1, fault - 1)]]
        ELSE [ok |-> TRUE, file |-> [exists |-> TRUE, lines |-> lines]]

WriteFaults(n) == {-2, -1, 0} \cup (1..n)

\* fn write_candidates_jsonl(cands) (lines 321-329)
write_candidates_jsonl(old, cs, fault) ==
    WriteLines(old, [i \in 1..Len(cs) |-> ToJsonLine(cs[i])], fault)

\* A variant that keeps one candidate too few.
Kept_OneShort(k, n) == IF Min(k, n) > 0 THEN Min(k, n) - 1 ELSE 0

\* let kept = std::cmp::min(top_k, v.len()) (line 338)
Kept(k, n) == Min(k, n)

\* fn write_top_candidates_jsonl(cands, top_k) (lines 332-345): the returned
\* Result<usize> and the file it leaves
write_top_candidates_jsonl(old, cs, k, fault) ==
    LET v    == SortByScoreDesc(cs)
        nkept == Kept(k, Len(v))
        w    == WriteLines(old, [i \in 1..nkept |-> ToJsonLine(v[i])], fault)
    IN  [ ret  |-> IF w.ok THEN Ok(nkept) ELSE Err,
          file |-> w.file ]

(***************************************************************************)
(* SpecTop: write_top_candidates_jsonl on every bounded slice and K.       *)
(***************************************************************************)
MaxCands == 3
MaxK == 2

\* The candidates a slice is made of: build_candidate over these parameters.
\* "tokyo" and "sydney" both take the default bonus, so their scores tie.
CandSamples ==
    { build_candidate(d, 18000, 25000, sess, run_strategy(d, 18000, 25000, sess)) :
        d \in {20, 22}, sess \in {"london", "tokyo", "sydney"} }

InitTop ==
    /\ cands \in SeqsUpTo(CandSamples, MaxCands)
    /\ top_k \in 0..MaxK
    /\ top_result = [ret |-> Ok(0), file |-> NoFile]
    /\ top_pc = "input"
    /\ AggIdle
    /\ LoadIdle
    /\ MainIdle

WriteTop ==
    /\ top_pc = "input"
    /\ \E fault \in WriteFaults(Min(top_k, Len(cands))) :
         top_result' = write_top_candidates_jsonl(NoFile, cands, top_k, fault)
    /\ top_pc' = "done"
    /\ UNCHANGED <<cands, top_k>>
    /\ UNCHANGED <<aggVars, loadVars, mainVars>>

NextTop == WriteTop

SpecTop == InitTop /\ [][NextTop]_vars

(***************************************************************************)
(* The sweep and main in sweep mode (lines 350-416).                       *)
(***************************************************************************)
MaxDim == 2

\* write_top_candidates_jsonl(&all_candidates, 5) (line 406)
TopK == 5

\* The built-in grid (lines 365-368)
DefaultGrid ==
    [ donch_n        |-> <<20, 30, 40>>,
      rr_min         |-> <<18000, 20000, 25000>>,
      session_filter |-> <<"london", "nyopen">>,
      max_spread     |-> <<25000>> ]

\* fn build_param_grid(maybe_grid_file) (lines 350-371): the grid file's
\* arrays when there is a file, an error when it cannot be read or parsed,
\* the built-in grid when there is none
build_param_grid(input) ==
    IF input.kind = "spec" THEN Ok(input.spec)
    ELSE IF input.kind = "bad" THEN Err
    ELSE Ok(DefaultGrid)

\* The pushes of one loop level, in iteration order: the concatenation of
\* what each iteration pushed (line 396)
RECURSIVE Concat(_)
Concat(parts) ==
    IF parts = << >> THEN << >> ELSE Head(parts) \o Concat(Tail(parts))

\* let metrics = run_strategy(..); let cand = build_candidate(..);
\* all_candidates.push(cand) (lines 393-396)
Evaluate(d, rr, sess, sp) ==
    <<build_candidate(d, rr, sp, sess, run_strategy(d, rr, sp, sess))>>

\* A variant with the loops over session_filter and max_spread exchanged.
Sweep_SpreadOutside(g) ==
    Concat([i \in 1..Len(g.donch_n) |->
      Concat([j \in 1..Len(g.rr_min) |->
        Concat([l \in 1..Len(g.max_spread) |->
          Concat([k \in 1..Len(g.session_filter) |->
            Evaluate(g.donch_n[i], g.rr_min[j], g.session_filter[k],
                     g.max_spread[l])])])])])

\* for &d in &donch_vec { for &rr in &rr_vec { for sess in &sess_vec {
\*   for &sp in &spread_vec { ... all_candidates.push(cand) } } } } (389-400)
Sweep(g) ==
    Concat([i \in 1..Len(g.donch_n) |->
      Concat([j \in 1..Len(g.rr_min) |->
        Concat([k \in 1..Len(g.session_filter) |->
          Concat([l \in 1..Len(g.max_spread) |->
            Evaluate(g.donch_n[i], g.rr_min[j], g.session_filter[k],
                     g.max_spread[l])])])])])

\* A variant that drops the error and goes on.
Propagate_Ignore(ok, next) == next

\* The `?` after a fallible call in main (lines 379, 385, 403, 406): the
\* error returns from main, success goes on to the next step
Propagate(ok, next) == IF ok THEN next ELSE "aborted"

\* The grid files of the model: donch_n and session_filter are arrays of up
\* to MaxDim values, rr_min and max_spread one of three arrays (empty, one
\* value, two values)
GridSpecs ==
    [ donch_n        : SeqsUpTo({20, 30}, MaxDim),
      rr_min         : {<< >>, <<18000>>, <<20000, 18000>>},
      session_filter : SeqsUpTo({"london", "tokyo"}, MaxDim),
      max_spread     : {<< >>, <<25000>>, <<30000, 25000>>} ]

InitMain ==
    /\ main_pc = "load_ticks"
    /\ grid_input \in {[kind |-> "none", spec |-> EmptyGrid],
                       [kind |-> "bad", spec |-> EmptyGrid]}
                      \cup [kind : {"spec"}, spec : GridSpecs]
    /\ grid = EmptyGrid
    /\ all_candidates = << >>
    /\ evaluations = 0
    /\ kept = 0
    /\ cand_file = NoFile
    /\ top_file = NoFile
    /\ summary = << >>
    /\ abort_cause = "none"
    /\ AggIdle
    /\ LoadIdle
    /\ TopIdle

AbortCause(ok, step) == IF ok THEN "none" ELSE step

\* let ticks = load_ticks(&cli.ticks_file)?; let candles = ticks_to_candles(..)
\* (lines 379-380).  The sweep reads neither, so only the outcome is kept.
MainLoadTicks ==
    /\ main_pc = "load_ticks"
    /\ \E ok \in BOOLEAN :
         /\ main_pc' = Propagate(ok, "build_grid")
         /\ abort_cause' = AbortCause(ok, "load_ticks")
    /\ UNCHANGED <<grid_input, grid, all_candidates, evaluations, kept,
                   cand_file, top_file, summary>>
    /\ UNCHANGED <<aggVars, loadVars, topVars>>

\* let (donch_vec, ..) = build_param_grid(&cli.grid_file)?; (line 385)
MainBuildGrid ==
    /\ main_pc = "build_grid"
    /\ LET r == build_param_grid(grid_input) IN
         /\ main_pc' = Propagate(r.ok, "sweep")
         /\ abort_cause' = AbortCause(r.ok, "build_grid")
         /\ grid' = IF r.ok THEN r.val ELSE grid
    /\ UNCHANGED <<grid_input, all_candidates, evaluations, kept, cand_file,
                   top_file, summary>>
    /\ UNCHANGED <<aggVars, loadVars, topVars>>

\* the nested loops (lines 387-400)
MainSweep ==
    /\ main_pc = "sweep"
    /\ all_candidates' = Sweep(grid)
    /\ evaluations' = evaluations + Len(Sweep(grid))
    /\ main_pc' = "write_all"
    /\ UNCHANGED <<grid_input, grid, kept, cand_file, top_file, summary,
                   abort_cause>>
    /\ UNCHANGED <<aggVars, loadVars, topVars>>

\* write_candidates_jsonl(&all_candidates)?; (line 403)
MainWriteAll ==
    /\ main_pc = "write_all"
    /\ \E fault \in WriteFaults(Len(all_candidates)) :
         LET w == write_candidates_jsonl(cand_file, all_candidates, fault) IN
           /\ cand_file' = w.file
           /\ main_pc' = Propagate(w.ok, "write_top")
           /\ abort_cause' = AbortCause(w.ok, "write_all")
    /\ UNCHANGED <<grid_input, grid, all_candidates, evaluations, kept,
                   top_file, summary>>
    /\ UNCHANGED <<aggVars, loadVars, topVars>>

\* let kept = write_top_candidates_jsonl(&all_candidates, 5)?; (line 406)
MainWriteTop ==
    /\ main_pc = "write_top"
    /\ \E fault \in WriteFaults(Min(TopK, Len(all_candidates))) :
         LET w == write_top_candidates_jsonl(top_file, all_candidates, TopK, fault) IN
           /\ top_file' = w.file
           /\ kept' = IF w.ret.ok THEN w.ret.val ELSE kept
           /\ main_pc' = Propagate(w.ret.ok, "summary")
           /\ abort_cause' = AbortCause(w.ret.ok, "write_top")
    /\ UNCHANGED <<grid_input, grid, all_candidates, evaluations, cand_file,
                   summary>>
    /\ UNCHANGED <<aggVars, loadVars, topVars>>

\* println!("{}", json!({"ok": true, "generated": .., "top_kept": kept}));
\* return Ok(()) (lines 409-416)
MainPrintSummary ==
    /\ main_pc = "summary"
    /\ summary' = Append(summary, [ ok        |-> TRUE,
                                    generated |-> Len(all_candidates),
                                    top_kept  |-> kept ])
    /\ main_pc' = "done"
    /\ UNCHANGED <<grid_input, grid, all_candidates, evaluations, kept,
                   cand_file, top_file, abort_cause>>
    /\ UNCHANGED <<aggVars, loadVars, topVars>>

Next ==
    \/ MainLoadTicks
    \/ MainBuildGrid
    \/ MainSweep
    \/ MainWriteAll
    \/ MainWriteTop
    \/ MainPrintSummary

Spec == InitMain /\ [][Next]_vars

(***************************************************************************)
(* Properties of write_top_candidates_jsonl (SpecTop).                     *)
(***************************************************************************)
\* score = pf_bt - 10*dd_bt
score_of(c) == c.metrics.pf_bt - 10 * c.metrics.dd_bt

\* the place of cands[i] in the stable descending order: one more than the
\* number of candidates that score higher, or score the same and come earlier
RankIn(cs, i) ==
    1 + Cardinality({j \in 1..Len(cs) :
          \/ score_of(cs[j]) > score_of(cs[i])
          \/ (score_of(cs[j]) = score_of(cs[i]) /\ j < i)})

\* C7: write_top_candidates_jsonl(cands, K) writes the first min(K, len) of
\* cands in non-increasing order of score = pf_bt - 10*dd_bt, candidates of
\* equal score in their order in cands, and returns min(K, len).
C7_TopKStableDescending ==
    (top_pc = "done" /\ top_result.ret.ok) =>
        LET n == Min(top_k, Len(cands))
            written == top_result.file.lines
        IN  /\ top_result.ret.val = n
            /\ top_result.file.exists
            /\ Len(written) = n
            /\ \A i \in 1..Len(cands) :
                 RankIn(cands, i) <= n => written[RankIn(cands, i)] = ToJsonLine(cands[i])
            /\ \A a, b \in 1..Len(written) :
                 a <= b => written[a][4].pf_bt - 10 * written[a][4].dd_bt
                             >= written[b][4].pf_bt - 10 * written[b][4].dd_bt

\* three candidates, the two of equal score not the best and given in an
\* order the written file keeps, with K cutting the list
C7_Witness ==
    /\ top_pc = "done"
    /\ top_result.ret.ok
    /\ Len(cands) = 3
    /\ top_k = 2
    /\ score_of(cands[1]) = score_of(cands[3])
    /\ cands[1] # cands[3]
    /\ score_of(cands[2]) < score_of(cands[1])
    /\ top_result.file.lines = <<ToJsonLine(cands[1]), ToJsonLine(cands[3])>>

(***************************************************************************)
(* Properties of main in sweep mode (Spec).                                *)
(***************************************************************************)
\* the sweep has run
Swept == \/ main_pc \in {"write_all", "write_top", "summary", "done"}
         \/ main_pc = "aborted" /\ abort_cause \in {"write_all", "write_top"}

\* write_candidates_jsonl has returned Ok
FullListWritten == \/ main_pc \in {"write_top", "summary", "done"}
                   \/ main_pc = "aborted" /\ abort_cause = "write_top"

\* the lines of the min(k, len) best of cs, best first, ties in cs order
TopLines(cs, k) ==
    [r \in 1..Min(k, Len(cs)) |->
        ToJsonLine(cs[CHOOSE i \in 1..Len(cs) : RankIn(cs, i) = r])]

\* C6: the candidate list holds one candidate per element of
\* donch_n x rr_min x session_filter x max_spread, donch_n outermost and
\* max_spread innermost; the full output has them line by line in that order;
\* writing the top-K leaves the list as it was.
C6_CartesianNestedOrder ==
    Swept =>
        LET nd == Len(grid.donch_n)
            nr == Len(grid.rr_min)
            ns == Len(grid.session_filter)
            np == Len(grid.max_spread)
        IN  /\ Len(all_candidates) = nd * nr * ns * np
            /\ \A i \in 1..nd, j \in 1..nr, k \in 1..ns, l \in 1..np :
                 all_candidates[(((i - 1) * nr + (j - 1)) * ns + (k - 1)) * np + l].params
                   = [ donch_n        |-> grid.donch_n[i],
                       rr_min         |-> grid.rr_min[j],
                       session_filter |-> grid.session_filter[k],
                       max_spread     |-> grid.max_spread[l] ]
            /\ FullListWritten =>
                 /\ Len(cand_file.lines) = Len(all_candidates)
                 /\ \A n \in 1..Len(all_candidates) :
                      cand_file.lines[n] = ToJsonLine(all_candidates[n])

\* a 2 x 2 x 2 x 2 grid file swept, both outputs written, whose best
\* candidate is not the first of the list
C6_Witness ==
    /\ main_pc = "done"
    /\ grid_input.kind = "spec"
    /\ Len(all_candidates) = 16
    /\ all_candidates[1].params.max_spread # all_candidates[2].params.max_spread
    /\ all_candidates[1].params.session_filter # all_candidates[3].params.session_filter
    /\ all_candidates[1].params.rr_min # all_candidates[5].params.rr_min
    /\ all_candidates[1].params.donch_n # all_candidates[9].params.donch_n
    /\ top_file.lines[1] # ToJsonLine(all_candidates[1])
    /\ Len(cand_file.lines) = 16

\* C8 (as claimed): when the write of the full list fails partway, leaving a
\* partial candidates file, the top-K output is still written with the
\* min(K, n) best candidates.
C8_TopWrittenDespiteFailure ==
    (main_pc = "aborted" /\ abort_cause = "write_all" /\ cand_file.exists) =>
        /\ top_file.exists
        /\ top_file.lines = TopLines(all_candidates, TopK)

\* C8 (amended): when the write of the full list fails partway, leaving a
\* partial candidates file, the run aborts there: the top-K write is never
\* attempted and no top-K output is written.  The top-K output, when it is
\* written, holds the min(K, n) best of the in-memory candidate set.
C8_FailedFullWriteAborts ==
    /\ abort_cause = "write_all" =>
         /\ main_pc = "aborted"
         /\ ~top_file.exists
         /\ summary = << >>
         /\ cand_file.exists =>
              /\ Len(cand_file.lines) < Len(all_candidates)
              /\ \A n \in 1..Len(cand_file.lines) :
                   cand_file.lines[n] = ToJsonLine(all_candidates[n])
    /\ main_pc \in {"summary", "done"} =>
         /\ top_file.exists
         /\ top_file.lines = TopLines(all_candidates, TopK)

\* the full write failed at its third line: two lines are in the file
C8_Witness ==
    /\ main_pc = "aborted"
    /\ abort_cause = "write_all"
    /\ cand_file.exists
    /\ Len(cand_file.lines) = 2
    /\ Len(all_candidates) > TopK

\* C9: the summary {ok, generated, top_kept} is printed only after the full
\* list and then the top-K were written; generated is the number of
\* candidates swept and top_kept is min(5, generated); when the grid load or a
\* write fails the run aborts with no summary, and a grid load failure comes
\* before any evaluation or output.
C9_SummaryOnlyAfterBothWrites ==
    /\ summary # << >> =>
         /\ main_pc = "done"
         /\ abort_cause = "none"
         /\ summary = << [ ok        |-> TRUE,
                           generated |-> Len(grid.donch_n) * Len(grid.rr_min)
                                           * Len(grid.session_filter) * Len(grid.max_spread),
                           top_kept  |-> Min(5, Len(all_candidates)) ] >>
         /\ summary[1].generated = Len(all_candidates)
         /\ cand_file.exists /\ Len(cand_file.lines) = summary[1].generated
         /\ top_file.exists /\ Len(top_file.lines) = summary[1].top_kept
    /\ main_pc = "done" => summary # << >>
    /\ top_file.exists => (cand_file.exists /\ Len(cand_file.lines) = Len(all_candidates))
    /\ abort_cause # "none" => (main_pc = "aborted" /\ summary = << >>)
    /\ main_pc = "aborted" => abort_cause # "none"
    /\ abort_cause \in {"load_ticks", "build_grid"} =>
         /\ evaluations = 0
         /\ all_candidates = << >>
         /\ ~cand_file.exists
         /\ ~top_file.exists

\* a completed run of the built-in grid: 18 generated, 5 kept
C9_Witness ==
    /\ main_pc = "done"
    /\ grid_input.kind = "none"
    /\ summary = << [ok |-> TRUE, generated |-> 18, top_kept |-> 5] >>

\* a run that a bad grid file aborted
C9_WitnessBadGrid ==
    /\ main_pc = "aborted"
    /\ abort_cause = "build_grid"
    /\ grid_input.kind = "bad"

(***************************************************************************)
(* Properties of load_ticks (SpecLoad).                                    *)
(***************************************************************************)
\* the positions of the commas of a line, and its k-th comma-separated field
CommaAt(line) == {i \in 1..Len(line) : line[i] = ","}

NthComma(line, k) ==
    CHOOSE i \in CommaAt(line) : Cardinality({j \in CommaAt(line) : j <= i}) = k

FieldOf(line, k) ==
    LET n  == Cardinality(CommaAt(line))
        lo == IF k = 1 THEN 1 ELSE NthComma(line, k - 1) + 1
        hi == IF k = n + 1 THEN Len(line) ELSE NthComma(line, k) - 1
    IN  SubSeq(line, lo, hi)

\* line i yields a Tick: it has three fields or more, and it is not a first
\* line holding all of "ts_ms", "bid" and "ask"
YieldsTick(i) ==
    /\ Cardinality(CommaAt(file_lines[i])) + 1 >= 3
    /\ ~(i = 1 /\ Contains(file_lines[1], kTsMs) /\ Contains(file_lines[1], kBid)
               /\ Contains(file_lines[1], kAsk))

\* the line that the j-th returned Tick comes from
SourceLine(j) ==
    CHOOSE i \in 1..Len(file_lines) :
        /\ YieldsTick(i)
        /\ Cardinality({h \in 1..i : YieldsTick(h)}) = j

ParsedOrZero(res) == IF res.ok THEN res.val ELSE 0

\* C10: with no I/O error load_ticks succeeds whatever the rows hold, and
\* returns, in input order, one Tick per line with three fields or more, line
\* 1 excepted when it holds "ts_ms", "bid" and "ask" (later lines are never
\* taken for a header); a field that fails to parse is 0, the others are kept.
C10_LenientLoad ==
    (load_pc = "done" /\ io_fault = 0) =>
        /\ load_result.ok
        /\ Len(load_result.val) = Cardinality({i \in 1..Len(file_lines) : YieldsTick(i)})
        /\ \A j \in 1..Len(load_result.val) :
             LET line == file_lines[SourceLine(j)]
                 tk == load_result.val[j]
             IN  /\ tk.ts_ms = ParsedOrZero(ParseU64(Trim(FieldOf(line, 1))))
                 /\ tk.bid = ParsedOrZero(ParseF64(Trim(FieldOf(line, 2))))
                 /\ tk.ask = ParsedOrZero(ParseF64(Trim(FieldOf(line, 3))))

\* a file whose header is skipped on line 1 while the same text on line 2 is
\* read as a row of three unparsable fields
C10_Witness ==
    /\ load_pc = "done"
    /\ io_fault = 0
    /\ Len(file_lines) = 2
    /\ file_lines[1] = file_lines[2]
    /\ IsHeader(file_lines[1])
    /\ load_result = Ok(<<[ts_ms |-> 0, bid |-> 0, ask |-> 0]>>)

\* rows with a short line, an unparsable field and kept fields beside it
C10_WitnessRows ==
    /\ load_pc = "done"
    /\ io_fault = 0
    /\ Len(file_lines) = 2
    /\ Len(Split(file_lines[1])) = 2
    /\ load_result = Ok(<<[ts_ms |-> 0, bid |-> 20, ask |-> 10]>>)

(***************************************************************************)
(* Properties of ticks_to_candles (SpecTicks).                             *)
(***************************************************************************)
AggDone == agg_pc = "done"

\* timestamps are non-decreasing
Sorted == \A i, j \in 1..Len(ticks) : i <= j => ticks[i].ts_ms <= ticks[j].ts_ms

\* the indices of the ticks whose timestamp lies in [lo, hi)
InWindow(lo, hi) == {i \in 1..Len(ticks) : lo <= ticks[i].ts_ms /\ ticks[i].ts_ms < hi}

RECURSIVE SumSpreads(_)
SumSpreads(I) ==
    IF I = {} THEN 0
    ELSE LET i == CHOOSE x \in I : TRUE IN Spread(ticks[i]) + SumSpreads(I \ {i})

\* the fraction frac is the mean spread of the ticks with index in I (0 for none)
IsMeanOver(frac, I) ==
    IF I = {} THEN frac.num = 0
    ELSE frac.num * Cardinality(I) = SumSpreads(I) * frac.den

SetMin(S) == CHOOSE x \in S : \A y \in S : x <= y
SetMax(S) == CHOOSE x \in S : \A y \in S : x >= y

\* the ticks before the first one at or past the end of the first window
FirstRun ==
    LET past == {i \in 1..Len(ticks) : ticks[i].ts_ms >= ticks[1].ts_ms + interval_ms}
    IN  IF past = {} THEN 1..Len(ticks) ELSE 1..(SetMin(past) - 1)

LastTick == ticks[Len(ticks)]
LastCandle == candles[Len(candles)]

\* C2 (as claimed): for any non-empty tick sequence, sorted or not, the last
\* input tick belongs to the last candle.
C2_LastTickInLastCandle_Any ==
    (AggDone /\ Len(ticks) > 0) =>
        /\ Len(candles) > 0
        /\ LastCandle.start_ts <= LastTick.ts_ms
        /\ LastTick.ts_ms < LastCandle.end_ts

\* C2 (amended): for any non-empty tick sequence with non-decreasing
\* timestamps, the last input tick belongs to the last candle.
C2_LastTickInLastCandle_Sorted ==
    (AggDone /\ Len(ticks) > 0 /\ Sorted) =>
        /\ Len(candles) > 0
        /\ LastCandle.start_ts <= LastTick.ts_ms
        /\ LastTick.ts_ms < LastCandle.end_ts

\* a sorted input whose last tick opened a later bucket across a gap
C2_Witness ==
    /\ AggDone
    /\ Sorted
    /\ Len(candles) >= 2
    /\ LastCandle.start_ts > candles[Len(candles) - 1].end_ts
    /\ LastCandle.start_ts <= LastTick.ts_ms

\* the window numbers k of [t0 + k*interval, t0 + (k+1)*interval) holding a tick
TouchedWindows == {(ticks[i].ts_ms - ticks[1].ts_ms) \div interval_ms : i \in 1..Len(ticks)}

\* C3: for non-decreasing timestamps there is exactly one candle per window
\* [t0 + k*interval, t0 + (k+1)*interval) that holds a tick and none for an
\* empty window, in increasing window order; the trailing bucket is flushed;
\* an empty tick sequence yields no candle.
C3_OneCandlePerTouchedWindow ==
    AggDone =>
        /\ Len(ticks) = 0 => candles = << >>
        /\ (Len(ticks) > 0 /\ Sorted) =>
            /\ Len(candles) = Cardinality(TouchedWindows)
            /\ \A j \in 1..Len(candles) :
                 /\ InWindow(candles[j].start_ts, candles[j].end_ts) # {}
                 /\ \E k \in TouchedWindows :
                      /\ candles[j].start_ts = ticks[1].ts_ms + k * interval_ms
                      /\ candles[j].end_ts = ticks[1].ts_ms + (k + 1) * interval_ms
            /\ \A j \in 1..(Len(candles) - 1) :
                 candles[j].start_ts < candles[j + 1].start_ts
            /\ LastTick.ts_ms \in LastCandle.start_ts .. (LastCandle.end_ts - 1)

\* a sorted input with a silent gap: two candles and an empty window between
C3_Witness ==
    /\ AggDone
    /\ Sorted
    /\ Len(ticks) = 3
    /\ Len(candles) = 2
    /\ candles[2].start_ts > candles[1].end_ts
    /\ InWindow(candles[1].end_ts, candles[2].start_ts) = {}

\* C4: for non-decreasing timestamps every candle has open = bid of the first
\* tick of its window, close = bid of the last one, high = the maximum and
\* low = the minimum bid over them; so low <= min(open, close) and
\* high >= max(open, close).
C4_OhlcOfWindow ==
    (AggDone /\ Sorted) =>
        \A j \in 1..Len(candles) :
            LET c == candles[j]
                I == InWindow(c.start_ts, c.end_ts)
                bids == {ticks[i].bid : i \in I}
            IN  /\ I # {}
                /\ c.open = ticks[SetMin(I)].bid
                /\ c.close = ticks[SetMax(I)].bid
                /\ c.high = SetMax(bids)
                /\ c.low = SetMin(bids)
                /\ c.low <= Min(c.open, c.close)
                /\ c.high >= Max(c.open, c.close)

\* a candle of three ticks whose low lies strictly below its open and close
C4_Witness ==
    /\ AggDone
    /\ Sorted
    /\ \E j \in 1..Len(candles) :
         /\ Cardinality(InWindow(candles[j].start_ts, candles[j].end_ts)) = 3
         /\ candles[j].low < candles[j].open
         /\ candles[j].low < candles[j].close

\* C5: for any tick sequence, sorted or not, every candle is interval_ms wide
\* and starts at ticks[0].ts_ms + k*interval_ms for some k >= 0, and the next
\* candle starts at or after the end of the previous one.
C5_WindowsOnGrid ==
    AggDone =>
        /\ \A j \in 1..Len(candles) :
             /\ candles[j].end_ts - candles[j].start_ts = interval_ms
             /\ candles[j].start_ts >= ticks[1].ts_ms
             /\ (candles[j].start_ts - ticks[1].ts_ms) % interval_ms = 0
        /\ \A j \in 1..(Len(candles) - 1) :
             /\ candles[j + 1].start_ts >= candles[j].end_ts
             /\ candles[j + 1].start_ts > candles[j].start_ts

\* an unsorted input that produced two candles with an empty window between
C5_Witness ==
    /\ AggDone
    /\ ~Sorted
    /\ Len(candles) >= 2
    /\ candles[2].start_ts > candles[1].end_ts

====
